---- MODULE Spec2Model ----
(***************************************************************************)
(* Model of packages/modal-infra/src/sandbox/screenshot_streamer.py:       *)
(* the ScreenshotStreamer run (start, _wait_for_target, _capture_loop,     *)
(* _capture_and_send, _send_frame), the stop path (stop, the signal        *)
(* handler of main) and the browser they share.                            *)
(*                                                                         *)
(* asyncio runs one coroutine at a time; a coroutine gives up control only *)
(* at an await.  Every action below is the code that runs from the end of  *)
(* one await to the start of the next one, and pc names the await the      *)
(* streaming task (main -> start) is suspended in.                         *)
(***************************************************************************)
EXTENDS Integers, Sequences, FiniteSets, TLC

VARIABLES
    pc,              \* the await start() is suspended in ("init": not called, "done": returned)
    running,         \* self.running
    browser,         \* self.browser is not None
    page,            \* self.page is not None
    frame_count,     \* self.frame_count
    last_frame_hash, \* self.last_frame_hash: <<>> is None, <<h>> a digest
    http_client,     \* self._http_client: "none", "open", "closed"
    elapsed,         \* time.time() - start inside _wait_for_target
    attempt,         \* the loop variable of _send_frame
    payload,         \* the payload _send_frame built: frameNumber, frameHash
    engine,          \* the browser process: "none", "open", "closing", "closed"
    releases,        \* release operations issued on the browser (close() calls, scope exit)
    stopTasks,       \* stop() tasks created by handle_signal and not yet started
    closing,         \* stop() calls suspended in await self.browser.close()
    stops,           \* stop() calls started so far
    stopAt,          \* history: the value of pc when the first stop() call started
    posts,           \* history: the POST attempts, in send order
    capBytes,        \* history: <<b>> the bytes of the latest successful capture
    lastCycle,       \* history: how the latest streaming cycle ended
    sawBelow500,     \* history: some probe response had status_code < 500
    lastProbe,       \* history: how the latest probe request ended
    ended,           \* history: why start() left its body
    md5_raises       \* hashlib.md5 is unusable in this build (it raises ValueError)

vars == <<pc, running, browser, page, frame_count, last_frame_hash, http_client,
          elapsed, attempt, payload, engine, releases, stopTasks, closing, stops,
          stopAt, posts, capBytes, lastCycle, sawBelow500, lastProbe,
          ended, md5_raises>>

(***************************************************************************)
(* Bounds of the model.                                                    *)
(***************************************************************************)
MaxFrames == 2      \* frames judged new in one run
MaxStops == 2       \* stop() calls in one run
NumBytes == 2       \* distinct screenshot contents
HashValues == 16    \* size of the digest space the contents are hashed into

(***************************************************************************)
(* Constants of the program.                                               *)
(***************************************************************************)
MaxRetries == 3         \* StreamerConfig.max_retries
ProbeTimeout == 60      \* _wait_for_target(timeout=60.0)
ProbeReqTimeout == 5    \* httpx.AsyncClient(timeout=5.0)
ProbeSleep == 1         \* asyncio.sleep(1.0)

Bytes == 0 .. (NumBytes - 1)
StatusCodes == {200, 404, 500, 503}
ReqDurations == {0, ProbeReqTimeout}

\* hashlib.md5(screenshot_bytes).hexdigest()[:16]: a fixed scrambling of the
\* content into the digest space; no two contents of the bounded domain collide.
Hash(b) == (5 * b + 3) % HashValues

\* Variant: the boundary status 500 counts as available.
AvailableAt500(status) == status <= 500

\* response.status_code < 500
Available(status) == status < 500

\* response.status_code == 200
Delivered(status) == status = 200

\* Variant: the digest is never found equal to the stored one.
SameAsLastNever(h, last) == FALSE

\* frame_hash == self.last_frame_hash
SameAsLast(h, last) == last = <<h>>

\* Variant: the loop does not read the flag.
LoopConditionAlways(r) == TRUE

\* while self.running
LoopCondition(r) == r

\* Variant: one iteration fewer.
MoreAttemptsOneFewer(a) == a + 1 < MaxRetries - 1

\* range(self.config.max_retries): is there an iteration after index a
MoreAttempts(a) == a + 1 < MaxRetries

\* attempt < self.config.max_retries - 1
SleepBeforeRetry(a) == a < MaxRetries - 1

\* Variant: the counter advances by two.
NextFrameCountSkips(c) == c + 2

\* Variant: the counter is set once and never advances.
NextFrameCountStuck(c) == IF c = 0 THEN 1 ELSE c

\* self.frame_count += 1
NextFrameCount(c) == c + 1

Init ==
    /\ pc = "init"
    /\ running = FALSE
    /\ browser = FALSE
    /\ page = FALSE
    /\ frame_count = 0
    /\ last_frame_hash = <<>>
    /\ http_client = "none"
    /\ elapsed = 0
    /\ attempt = 0
    /\ payload = [frameNumber |-> 0, frameHash |-> 0]
    /\ engine = "none"
    /\ releases = 0
    /\ stopTasks = 0
    /\ closing = 0
    /\ stops = 0
    /\ stopAt = "none"
    /\ posts = <<>>
    /\ capBytes = <<>>
    /\ lastCycle = "none"
    /\ sawBelow500 = FALSE
    /\ lastProbe = "none"
    /\ ended = "no"
    /\ md5_raises \in BOOLEAN


(***************************************************************************)
(* The streaming task: main -> start.                                      *)
(***************************************************************************)

\* start, lines 66-76, up to the first probe request (_wait_for_target, 110-121).
start ==
    /\ pc = "init"
    /\ running' = TRUE
    /\ http_client' = "open"
    /\ elapsed' = 0
    /\ pc' = "probe_get"
    /\ UNCHANGED <<browser, page, frame_count, last_frame_hash, attempt, payload,
                   engine, releases, stopTasks, closing, stops, stopAt, posts,
                   capBytes, lastCycle, sawBelow500, ended, md5_raises, lastProbe>>

\* Variant: a transport error of the probe request is not caught and leaves start.
wait_for_target_response_uncaught(raised, status, d) ==
    /\ pc = "probe_get"
    /\ sawBelow500' = (sawBelow500 \/ (~raised /\ status < 500))
    /\ lastProbe' = IF raised THEN "error"
                    ELSE IF status < 500 THEN "below500" ELSE "unavailable"
    /\ IF raised
          THEN /\ pc' = "done"
               /\ ended' = "exception"
               /\ elapsed' = 0
          ELSE IF Available(status)
                  THEN /\ pc' = "launch"
                       /\ ended' = ended
                       /\ elapsed' = 0
                  ELSE /\ pc' = "probe_sleep"
                       /\ ended' = ended
                       /\ elapsed' = elapsed + d
    /\ UNCHANGED <<running, browser, page, frame_count, last_frame_hash, http_client,
                   attempt, payload, engine, releases, stopTasks, closing, stops,
                   stopAt, posts, capBytes, lastCycle, md5_raises>>

\* _wait_for_target, lines 121-128: the probe request ends after d seconds, with a
\* response carrying status or with a transport error (raised), which line 125
\* swallows. An available target returns True to start, which enters the browser
\* scope and launches (80-81); anything else sleeps 1s.
wait_for_target_response(raised, status, d) ==
    /\ pc = "probe_get"
    /\ sawBelow500' = (sawBelow500 \/ (~raised /\ status < 500))
    /\ lastProbe' = IF raised THEN "error"
                    ELSE IF status < 500 THEN "below500" ELSE "unavailable"
    /\ IF ~raised /\ Available(status)
          THEN /\ pc' = "launch"
               /\ elapsed' = 0
          ELSE /\ pc' = "probe_sleep"
               /\ elapsed' = elapsed + d
    /\ UNCHANGED <<running, browser, page, frame_count, last_frame_hash, http_client,
                   attempt, payload, engine, releases, stopTasks, closing, stops,
                   stopAt, posts, capBytes, lastCycle, ended, md5_raises>>

\* The budget test of _wait_for_target, line 115.
WithinBudget(t) == t < ProbeTimeout

\* _wait_for_target, lines 128, 115-121 and 130: the 1s sleep ends, then the head of
\* the while loop: budget left and still running issues the next request,
\* otherwise the probe returns False and start returns (76-78).
wait_for_target_sleep_done ==
    /\ pc = "probe_sleep"
    /\ LET t == elapsed + ProbeSleep IN
       IF WithinBudget(t) /\ running
          THEN /\ pc' = "probe_get"
               /\ elapsed' = t
               /\ ended' = ended
          ELSE /\ pc' = "done"
               /\ elapsed' = 0
               /\ ended' = IF WithinBudget(t) THEN "probe_stopped" ELSE "probe_timeout"
    /\ UNCHANGED <<running, browser, page, frame_count, last_frame_hash, http_client,
                   attempt, payload, engine, releases, stopTasks, closing, stops,
                   stopAt, posts, capBytes, lastCycle, sawBelow500,
                   md5_raises, lastProbe>>

\* start, lines 81-87: launch returns the browser; new_page is awaited next.
launch_done ==
    /\ pc = "launch"
    /\ browser' = TRUE
    /\ engine' = "open"
    /\ pc' = "new_page"
    /\ UNCHANGED <<running, page, frame_count, last_frame_hash, http_client, elapsed,
                   attempt, payload, releases, stopTasks, closing, stops, stopAt,
                   posts, capBytes, lastCycle, sawBelow500, ended,
                   md5_raises, lastProbe>>

\* start, lines 82-91: new_page returns the page and goto is awaited; on a browser
\* that a stop() closed meanwhile new_page raises, and nothing in start catches
\* it: the exception leaves the browser scope.
new_page_done(raised) ==
    /\ pc = "new_page"
    /\ raised => engine # "open"
    /\ ~raised => engine # "closed"
    /\ IF raised
          THEN /\ pc' = "exit_scope"
               /\ ended' = "exception"
               /\ page' = page
          ELSE /\ pc' = "goto"
               /\ ended' = ended
               /\ page' = TRUE
    /\ UNCHANGED <<running, browser, frame_count, last_frame_hash, http_client,
                   elapsed, attempt, payload, engine, releases, stopTasks, closing,
                   stops, stopAt, posts, capBytes, lastCycle, sawBelow500,
                   md5_raises, lastProbe>>

\* _capture_loop, line 134, and _capture_and_send, lines 144-149: the head of the
\* capture loop. While running, the next cycle awaits the screenshot; otherwise
\* the loop ends and start leaves the browser scope (98-99).
LoopHead ==
    IF LoopCondition(running)
       THEN /\ pc' = IF page THEN "screenshot" ELSE "sleep"
            /\ ended' = ended
       ELSE /\ pc' = "exit_scope"
            /\ ended' = "loop_exit"

\* Variant: the failure is logged but start goes on into the capture loop.
NavigationFailedContinues ==
    /\ pc' = "screenshot"
    /\ ended' = "nav_failed"

\* start, lines 90-95: what start does when goto raised.
NavigationFailed ==
    /\ pc' = "exit_scope"
    /\ ended' = "nav_failed"

\* start, lines 90-98: goto returns and the capture loop starts, or goto raises
\* and start returns from inside the browser scope.
goto_done(raised) ==
    /\ pc = "goto"
    /\ ~raised => engine # "closed"
    /\ IF raised THEN NavigationFailed ELSE LoopHead
    /\ UNCHANGED <<running, browser, page, frame_count, last_frame_hash, http_client,
                   elapsed, attempt, payload, engine, releases, stopTasks, closing,
                   stops, stopAt, posts, capBytes, lastCycle, sawBelow500,
                   md5_raises, lastProbe>>


(***************************************************************************)
(* The streaming cycle: _capture_loop, _capture_and_send, _send_frame.     *)
(***************************************************************************)

\* _send_frame, lines 196-203: one POST of the payload pl is issued and awaited.
IssuePost(pl) ==
    /\ posts' = Append(posts, [frameNumber |-> pl.frameNumber,
                               frameHash |-> pl.frameHash,
                               result |-> "pending"])
    /\ pc' = "post"

\* _capture_and_send, lines 158-174, and _send_frame, lines 178-196: a capture
\* returned the bytes b. hashlib.md5 may raise (caught by _capture_loop, 137-138);
\* an unchanged digest ends the cycle; a changed one is stored, takes the next
\* frame number and is POSTed.
FrameCaptured(b) ==
    IF md5_raises
       THEN /\ lastCycle' = "error"
            /\ pc' = "sleep"
            /\ UNCHANGED <<last_frame_hash, frame_count, payload, attempt, posts>>
       ELSE IF SameAsLast(Hash(b), last_frame_hash)
               THEN /\ lastCycle' = "duplicate"
                    /\ pc' = "sleep"
                    /\ UNCHANGED <<last_frame_hash, frame_count, payload, attempt, posts>>
               ELSE /\ frame_count < MaxFrames
                    /\ last_frame_hash' = <<Hash(b)>>
                    /\ frame_count' = NextFrameCount(frame_count)
                    /\ payload' = [frameNumber |-> frame_count', frameHash |-> Hash(b)]
                    /\ attempt' = 0
                    /\ IssuePost(payload')
                    /\ lastCycle' = "sending"

\* Variant: a failed screenshot ends the capture loop.
ScreenshotFailedEndsLoop ==
    /\ lastCycle' = "capture_failed"
    /\ pc' = "exit_scope"
    /\ UNCHANGED <<last_frame_hash, frame_count, payload, attempt, posts, capBytes>>

\* _capture_and_send, lines 148-156: what the cycle does when screenshot raised.
ScreenshotFailed ==
    /\ lastCycle' = "capture_failed"
    /\ pc' = "sleep"
    /\ UNCHANGED <<last_frame_hash, frame_count, payload, attempt, posts, capBytes>>

\* _capture_and_send, lines 148-174: the screenshot returns bytes or raises; the
\* cycle then runs up to the POST or to the interval sleep (_capture_loop, 140).
\* A screenshot on a closed browser raises.
screenshot_done(raised, b) ==
    /\ pc = "screenshot"
    /\ ~raised => engine # "closed"
    /\ IF raised
          THEN ScreenshotFailed
          ELSE /\ capBytes' = <<b>>
               /\ FrameCaptured(b)
    /\ UNCHANGED <<running, browser, page, http_client, elapsed, engine, releases,
                   stopTasks, closing, stops, stopAt, sawBelow500, ended, md5_raises, lastProbe>>

\* Variant: giving a frame up ends the capture loop.
GiveUpEndsLoop ==
    /\ lastCycle' = "dropped"
    /\ pc' = "exit_scope"

\* _send_frame, the fall-through after the for loop (194, 214), then the return
\* of _capture_and_send into _capture_loop, line 140: the frame is abandoned and
\* the cycle goes to the interval sleep.
GiveUp ==
    /\ lastCycle' = "dropped"
    /\ pc' = "sleep"

\* _send_frame, line 194: the next iteration of the for loop POSTs again (log is
\* the POST log so far); with no iteration left the frame is given up.
NextAttempt(log) ==
    IF MoreAttempts(attempt)
       THEN /\ attempt' = attempt + 1
            /\ posts' = Append(log, [frameNumber |-> payload.frameNumber,
                                     frameHash |-> payload.frameHash,
                                     result |-> "pending"])
            /\ pc' = "post"
            /\ lastCycle' = lastCycle
       ELSE /\ attempt' = attempt
            /\ posts' = log
            /\ GiveUp

\* The POST log with the outcome of the attempt in flight filled in.
Answered(raised, status) ==
    [posts EXCEPT ![Len(posts)].result =
        IF ~raised /\ status = 200 THEN "200" ELSE "failed"]

\* _send_frame, lines 196-214: the POST returns a response or raises. 200 returns
\* from _send_frame; another status goes straight to the next iteration; an
\* exception sleeps retry_delay first unless this was the last iteration.
send_frame_response(raised, status) ==
    /\ pc = "post"
    /\ IF ~raised /\ Delivered(status)
          THEN /\ posts' = Answered(raised, status)
               /\ lastCycle' = "delivered"
               /\ pc' = "sleep"
               /\ attempt' = attempt
          ELSE IF raised /\ SleepBeforeRetry(attempt)
                  THEN /\ posts' = Answered(raised, status)
                       /\ pc' = "retry_sleep"
                       /\ UNCHANGED <<attempt, lastCycle>>
                  ELSE NextAttempt(Answered(raised, status))
    /\ UNCHANGED <<running, browser, page, frame_count, last_frame_hash, http_client,
                   elapsed, payload, engine, releases, stopTasks, closing, stops,
                   stopAt, capBytes, sawBelow500, ended, md5_raises, lastProbe>>

\* _send_frame, line 214 then 194: the retry delay ends and the loop goes on.
retry_sleep_done ==
    /\ pc = "retry_sleep"
    /\ NextAttempt(posts)
    /\ UNCHANGED <<running, browser, page, frame_count, last_frame_hash, http_client,
                   elapsed, payload, engine, releases, stopTasks, closing, stops,
                   stopAt, capBytes, sawBelow500, ended, md5_raises, lastProbe>>

\* _capture_loop, line 140 then 134: the interval sleep ends, the loop head runs.
interval_sleep_done ==
    /\ pc = "sleep"
    /\ LoopHead
    /\ UNCHANGED <<running, browser, page, frame_count, last_frame_hash, http_client,
                   elapsed, attempt, payload, engine, releases, stopTasks, closing,
                   stops, stopAt, posts, capBytes, lastCycle, sawBelow500,
                   md5_raises, lastProbe>>

\* start, lines 80 and 99-101: leaving the async_playwright scope tears the
\* browser down. After the capture loop start goes on to close the HTTP client;
\* after a return (95) or an exception inside the scope it is over.
exit_scope_done ==
    /\ pc = "exit_scope"
    /\ engine' = "closed"
    /\ releases' = releases + 1
    /\ pc' = IF ended = "loop_exit" THEN "aclose" ELSE "done"
    /\ UNCHANGED <<running, browser, page, frame_count, last_frame_hash, http_client,
                   elapsed, attempt, payload, stopTasks, closing, stops, stopAt,
                   posts, capBytes, lastCycle, sawBelow500, ended,
                   md5_raises, lastProbe>>

\* start, lines 100-101: the HTTP client is closed and start returns.
aclose_done ==
    /\ pc = "aclose"
    /\ http_client' = "closed"
    /\ pc' = "done"
    /\ UNCHANGED <<running, browser, page, frame_count, last_frame_hash, elapsed,
                   attempt, payload, engine, releases, stopTasks, closing, stops,
                   stopAt, posts, capBytes, lastCycle, sawBelow500, ended,
                   md5_raises, lastProbe>>

(***************************************************************************)
(* The stop path: main.handle_signal and stop.                             *)
(***************************************************************************)

\* main.handle_signal, lines 248-252: SIGTERM or SIGINT arrives while the event
\* loop runs start; a task that will run stop() is created.
handle_signal ==
    /\ pc \notin {"init", "done"}
    /\ stops + stopTasks < MaxStops
    /\ stopTasks' = stopTasks + 1
    /\ UNCHANGED <<pc, running, browser, page, frame_count, last_frame_hash,
                   http_client, elapsed, attempt, payload, engine, releases, closing,
                   stops, stopAt, posts, capBytes, lastCycle, sawBelow500,
                   ended, md5_raises, lastProbe>>

\* stop, line 106.
RunningAfterStop == FALSE

\* stop, lines 103-108: stop() starts, as a task made by handle_signal (the event
\* loop of asyncio.run is gone once start returned) or called directly. It clears
\* the flag and, with a browser, calls close() on it and awaits the close.
stop(fromTask) ==
    /\ pc # "init"
    /\ IF fromTask
          THEN /\ stopTasks > 0
               /\ pc # "done"
               /\ stopTasks' = stopTasks - 1
          ELSE /\ stops + stopTasks < MaxStops
               /\ stopTasks' = stopTasks
    /\ stops' = stops + 1
    /\ stopAt' = IF stops = 0 THEN pc ELSE stopAt
    /\ running' = RunningAfterStop
    /\ IF browser
          THEN /\ releases' = releases + 1
               /\ closing' = closing + 1
               /\ engine' = IF engine = "open" THEN "closing" ELSE engine
          ELSE UNCHANGED <<releases, closing, engine>>
    /\ UNCHANGED <<pc, browser, page, frame_count, last_frame_hash, http_client,
                   elapsed, attempt, payload, posts, capBytes, lastCycle,
                   sawBelow500, ended, md5_raises, lastProbe>>

\* stop, line 108: an awaited browser.close() returns; the browser is gone.
close_done ==
    /\ closing > 0
    /\ closing' = closing - 1
    /\ engine' = "closed"
    /\ UNCHANGED <<pc, running, browser, page, frame_count, last_frame_hash,
                   http_client, elapsed, attempt, payload, releases, stopTasks, stops,
                   stopAt, posts, capBytes, lastCycle, sawBelow500, ended,
                   md5_raises, lastProbe>>

(***************************************************************************)
(* Specifications.                                                         *)
(***************************************************************************)

\* The steps of the streaming task.
StreamStep ==
    \/ start
    \/ \E raised \in BOOLEAN, status \in StatusCodes, d \in ReqDurations :
          wait_for_target_response(raised, status, d)
    \/ wait_for_target_sleep_done
    \/ launch_done
    \/ \E raised \in BOOLEAN : new_page_done(raised)
    \/ \E raised \in BOOLEAN : goto_done(raised)
    \/ \E raised \in BOOLEAN, b \in Bytes : screenshot_done(raised, b)
    \/ \E raised \in BOOLEAN, status \in StatusCodes : send_frame_response(raised, status)
    \/ retry_sleep_done
    \/ interval_sleep_done
    \/ exit_scope_done
    \/ aclose_done

\* The steps of the stop path.
StopStep ==
    \/ handle_signal
    \/ \E fromTask \in BOOLEAN : stop(fromTask)
    \/ close_done

Next == StreamStep \/ StopStep

Spec == Init /\ [][Next]_vars

\* Every await of the streaming task ends (each network call has a timeout, each
\* sleep is finite) and the event loop then resumes the task.
LiveSpec == Spec /\ WF_vars(StreamStep)


(***************************************************************************)
(* Vocabulary of the properties.                                           *)
(***************************************************************************)

\* The POST attempts that carried frame number n, in send order.
AttemptsOf(n) == SelectSeq(posts, LAMBDA p : p.frameNumber = n)

\* Some attempt of frame n was answered 200.
FrameDelivered(n) == \E i \in DOMAIN posts :
                        posts[i].frameNumber = n /\ posts[i].result = "200"

\* _send_frame is no longer working on frame n.
Settled(n) == ~(pc \in {"post", "retry_sleep"} /\ payload.frameNumber = n)

\* No delivery attempt has failed so far.
AllSendsSucceeded == \A i \in DOMAIN posts : posts[i].result # "failed"

\* This step is the end of the screenshot await with bytes returned.
CaptureSucceeds == pc = "screenshot" /\ pc' # "screenshot" /\ lastCycle' # "capture_failed"

\* No stop() call has started.
NoStopYet == stops = 0

\* The latest cycle gave its frame up after the last failed attempt.
Dropped == lastCycle = "dropped"

\* The latest cycle was abandoned on an exception.
CycleFailed == lastCycle \in {"capture_failed", "error"}

(***************************************************************************)
(* C1. A successful capture whose bytes equal those of the successful      *)
(* capture before it starts no delivery: no POST is issued, no frame       *)
(* number is taken, and the cycle goes to the interval sleep.              *)
(***************************************************************************)
C1_IdenticalCaptureNotSent ==
    [][(CaptureSucceeds /\ capBytes # <<>> /\ capBytes' = capBytes)
          => (posts' = posts /\ frame_count' = frame_count /\ pc' = "sleep")]_vars

\* A byte-identical capture followed a frame that was POSTed.
C1_Witness == lastCycle = "duplicate" /\ posts # <<>>

(***************************************************************************)
(* C2. While no delivery attempt has failed, the i-th POST carries         *)
(* frameNumber i and the counter equals the number of POSTs: the numbers   *)
(* are 1, 2, 3, ... whatever duplicates and failed captures came between.  *)
(***************************************************************************)
C2_GaplessWhenAllSucceed ==
    AllSendsSucceeded =>
        /\ \A i \in DOMAIN posts : posts[i].frameNumber = i
        /\ frame_count = Len(posts)

\* Two frames delivered at the first attempt, then a skipped duplicate.
C2_Witness ==
    /\ Len(posts) >= 2
    /\ \A i \in DOMAIN posts : posts[i].result = "200"
    /\ lastCycle = "duplicate"

(***************************************************************************)
(* C3. For every frame: an attempt answered 200 is the last attempt of the *)
(* frame (k failures then a 200 make exactly k+1 attempts and the frame is *)
(* delivered), and the frame is not given up before max_retries attempts   *)
(* have failed, so attempt k+1 is made for every k < max_retries.          *)
(***************************************************************************)
C3_RetryUntilFirstSuccess ==
    \A n \in 1 .. frame_count :
        LET a == AttemptsOf(n) IN
        /\ \A i \in 1 .. Len(a) : a[i].result = "200" => i = Len(a)
        /\ \A i \in 1 .. Len(a) : i < Len(a) => a[i].result = "failed"
        /\ (Settled(n) /\ ~FrameDelivered(n)) => Len(a) >= MaxRetries

\* A frame delivered at attempt max_retries, after max_retries - 1 failures.
C3_Witness ==
    \E n \in 1 .. frame_count :
        /\ Len(AttemptsOf(n)) = MaxRetries
        /\ AttemptsOf(n)[MaxRetries].result = "200"
        /\ AttemptsOf(n)[1].result = "failed"

(***************************************************************************)
(* C4. A frame given up after only failed attempts has had exactly         *)
(* max_retries + 1 POST attempts.                                          *)
(***************************************************************************)
C4_DroppedAfterMaxRetriesPlusOne ==
    \A n \in 1 .. frame_count :
        (Settled(n) /\ ~FrameDelivered(n)) => Len(AttemptsOf(n)) = MaxRetries + 1

(***************************************************************************)
(* C5. After a frame is dropped the run goes on: with no stop requested    *)
(* start has not returned and the flag is set, the loop reaches its next   *)
(* screenshot, nothing is POSTed again under the dropped frame's number,   *)
(* and a capture whose bytes differ from the capture before it is POSTed   *)
(* under the next frame number.                                            *)
(***************************************************************************)
C5_LoopContinuesAfterDrop ==
    /\ (Dropped /\ NoStopYet) ~> (pc = "screenshot" \/ ~NoStopYet)
    /\ [](Dropped /\ NoStopYet => running /\ pc \in {"sleep", "screenshot"})
    /\ [][(Dropped /\ posts' # posts)
             => posts'[Len(posts')].frameNumber > payload.frameNumber]_vars
    /\ [][(CaptureSucceeds /\ capBytes' # capBytes /\ ~md5_raises)
             => /\ pc' = "post"
                /\ Len(posts') = Len(posts) + 1
                /\ posts'[Len(posts')].frameNumber = frame_count + 1]_vars

\* A frame was dropped and a later frame is being POSTed, with no stop.
C5_Witness ==
    /\ pc = "post"
    /\ NoStopYet
    /\ \E n \in 1 .. frame_count :
          n < payload.frameNumber /\ Settled(n) /\ ~FrameDelivered(n)


(***************************************************************************)
(* C6. As long as no probe response had a status below 500, no browser is  *)
(* launched, nothing is captured and nothing is POSTed; probing lasts no   *)
(* longer than the budget plus one request; and every run either sees such *)
(* a response or stops, having sent no frame.                              *)
(***************************************************************************)
NothingStarted ==
    /\ ~browser /\ ~page /\ engine = "none"
    /\ posts = <<>> /\ capBytes = <<>> /\ frame_count = 0
    /\ pc \in {"init", "probe_get", "probe_sleep", "done"}

C6_ProbeTimeoutStopsBeforeStreaming ==
    /\ [](~sawBelow500 => NothingStarted)
    /\ [](elapsed < ProbeTimeout + ProbeReqTimeout)
    /\ [](pc = "done" /\ ~sawBelow500 => ended \in {"probe_timeout", "probe_stopped"})
    /\ <>(sawBelow500 \/ pc = "done")

\* The budget ran out with no response below 500 and no stop: start returned.
C6_Witness ==
    /\ pc = "done" /\ ended = "probe_timeout"
    /\ ~sawBelow500 /\ NoStopYet /\ stopTasks = 0

(***************************************************************************)
(* C7. Once stop() has started and the loop is in its interval sleep, the  *)
(* end of that sleep leaves the loop: from then on no screenshot is taken  *)
(* and no POST is issued.                                                  *)
(***************************************************************************)
AfterLoop == {"sleep", "exit_scope", "aclose", "done"}

C7_StopDuringSleepEndsLoop ==
    [][(~NoStopYet /\ pc \in AfterLoop)
          => /\ pc' \in AfterLoop
             /\ posts' = posts
             /\ capBytes' = capBytes
             /\ (pc = "sleep" /\ pc' # "sleep" => pc' = "exit_scope")]_vars

\* The first stop() came during the interval sleep, after a POST; start returned.
C7_Witness == stopAt = "sleep" /\ pc = "done" /\ posts # <<>>

(***************************************************************************)
(* C8. At most one release operation is ever issued on the browser, and a  *)
(* run that launched one and has returned issued exactly one.              *)
(***************************************************************************)
C8_BrowserReleasedExactlyOnce ==
    /\ releases <= 1
    /\ (pc = "done" /\ browser) => releases = 1

C10_NavigationFailureEndsRun ==
    ended = "nav_failed" =>
        /\ pc \in {"exit_scope", "done"}
        /\ posts = <<>> /\ capBytes = <<>> /\ lastCycle = "none"
        /\ pc = "done" => (engine = "closed" /\ releases >= 1)

\* Navigation failed with no stop involved, and start has returned.
C10_Witness == ended = "nav_failed" /\ pc = "done" /\ NoStopYet


(***************************************************************************)
(* C11. The probe never raises and answers with a boolean: a request that  *)
(* ends in a transport error or a status of 500 or more is followed by the *)
(* 1s sleep and, with budget left and no stop requested, by another        *)
(* request, otherwise by the answer False; the answer is True exactly when *)
(* some response had a status below 500.                                   *)
(***************************************************************************)
Probing == {"init", "probe_get", "probe_sleep"}

ProbeSaidNo == ended \in {"probe_timeout", "probe_stopped"}

C11_ProbeAnswersWithoutRaising ==
    /\ [][(pc = "probe_get" /\ pc' # pc)
             => /\ ended' = "no"
                /\ pc' = IF lastProbe' = "below500" THEN "launch" ELSE "probe_sleep"]_vars
    /\ [][(pc = "probe_sleep" /\ pc' # pc)
             => IF elapsed + ProbeSleep < ProbeTimeout /\ NoStopYet
                   THEN pc' = "probe_get" /\ ended' = "no"
                   ELSE pc' = "done" /\ ended' \in {"probe_timeout", "probe_stopped"}]_vars
    /\ [](sawBelow500 <=> (pc \notin Probing /\ ~ProbeSaidNo))
    /\ [](ended = "probe_stopped" => ~NoStopYet)

\* Another probe request is in flight after one that ended in a transport error.
C11_Witness == pc = "probe_get" /\ lastProbe = "error" /\ NoStopYet

(***************************************************************************)
(* C12. A run that ended on the probe timeout exits with a non-zero        *)
(* status.                                                                 *)
(***************************************************************************)

\* main, lines 254-258: the exit status of the process once start() is over.
\* asyncio.run(main()) returns normally when start() returned (status 0) and
\* re-raises what escaped start() (status 1); -1 stands for still running.
ExitStatus ==
    IF pc = "done" THEN (IF ended = "exception" THEN 1 ELSE 0) ELSE -1

C12_ProbeTimeoutExitsNonZero ==
    (pc = "done" /\ ended = "probe_timeout") => ExitStatus # 0

(***************************************************************************)
(* C13. After a stop() that started while a POST was in flight, no further *)
(* POST is issued and no retry delay is begun.                             *)
(***************************************************************************)
C13_NoRetryAfterStop ==
    [][(stopAt = "post")
          => (Len(posts') = Len(posts) /\ (pc' = "retry_sleep" => pc = "retry_sleep"))]_vars

(***************************************************************************)
(* C14. No browser.close() of a stop() is in progress while the streaming  *)
(* task awaits a launch, new_page, goto or screenshot on that browser.     *)
(***************************************************************************)
C14_BrowserNeverUsedConcurrently ==
    ~(closing > 0 /\ pc \in {"launch", "new_page", "goto", "screenshot"})

(***************************************************************************)
(* C15. When start() has returned, the HTTP client it created is closed.   *)
(***************************************************************************)
C15_HttpClientClosedOnReturn ==
    pc = "done" => http_client = "closed"

(***************************************************************************)
(* C16. When start() has returned the running flag is false, and a stop()  *)
(* that starts after that changes nothing of the streamer.                 *)
(***************************************************************************)
C16_FlagClearedOnceStopped ==
    /\ [][pc' = "done" => ~running']_vars
    /\ [][(pc = "done" /\ stops' # stops)
             => UNCHANGED <<running, engine, releases, closing, http_client>>]_vars

(***************************************************************************)
(* C17. A POST that repeats the frame number of the POST before it is      *)
(* issued at the end of a retry delay.                                     *)
(***************************************************************************)
C17_DelayBetweenAttempts ==
    [][(Len(posts') > Len(posts) /\ posts # <<>>
          /\ posts'[Len(posts')].frameNumber = posts[Len(posts)].frameNumber)
          => pc = "retry_sleep"]_vars

(***************************************************************************)
(* C18. Whenever no delivery is in progress, the stored fingerprint is the *)
(* fingerprint of the latest POST that was answered 200, and None while no *)
(* POST has been answered 200.                                             *)
(***************************************************************************)
DeliveredPosts == SelectSeq(posts, LAMBDA p : p.result = "200")

C18_StoredFingerprintIsLastDelivered ==
    pc \notin {"post", "retry_sleep"} =>
    last_frame_hash = IF DeliveredPosts = <<>> THEN <<>>
                      ELSE <<DeliveredPosts[Len(DeliveredPosts)].frameHash>>

(***************************************************************************)
(* C19. Frame numbers are taken once and never reused: the first POST      *)
(* carries 1; a POST repeats the number (and the fingerprint) of the POST  *)
(* before it only as a retry of a failed attempt, and otherwise carries    *)
(* the next number, after the earlier frame was delivered or given up; the *)
(* counter is the number of the latest POST.                               *)
(***************************************************************************)
C19_FrameNumbersNeverReused ==
    /\ posts # <<>> => (posts[1].frameNumber = 1
                        /\ posts[Len(posts)].frameNumber = frame_count)
    /\ posts = <<>> => frame_count = 0
    /\ \A i \in 1 .. (Len(posts) - 1) :
          \/ /\ posts[i + 1].frameNumber = posts[i].frameNumber
             /\ posts[i + 1].frameHash = posts[i].frameHash
             /\ posts[i].result = "failed"
          \/ /\ posts[i + 1].frameNumber = posts[i].frameNumber + 1
             /\ posts[i].result \in {"200", "failed"}
             /\ posts[i].result = "failed"
                   => Len(AttemptsOf(posts[i].frameNumber)) = MaxRetries

\* Frame 1 was given up after attempts that all failed; frame 2 was delivered.
C19_Witness ==
    /\ ~FrameDelivered(1) /\ Settled(1) /\ Len(AttemptsOf(1)) > 1
    /\ FrameDelivered(2)

(***************************************************************************)
(* C20. After a stop() that started during probing no browser is launched: *)
(* the run is still probing or start() has returned, with no browser, no   *)
(* page, no capture and no POST.                                           *)
(***************************************************************************)
C20_StopDuringProbingNeverLaunches ==
    stopAt \in {"probe_get", "probe_sleep"} =>
        /\ pc \in {"probe_get", "probe_sleep", "done"}
        /\ ~browser /\ ~page /\ engine = "none"
        /\ posts = <<>> /\ capBytes = <<>>


(***************************************************************************)
(* C21. Once a stop() has started, start() eventually returns, and it      *)
(* returns normally: no exception leaves it.                               *)
(***************************************************************************)

\* The liveness half: every stop() is followed by the return of start().
StopLeadsToStopped == (~NoStopYet) ~> (pc = "done")

\* The clean half: after a stop() no exception has left the body of start().
C21_StopEndsRunCleanly ==
    ~NoStopYet => (ended # "exception" /\ ExitStatus # 1)

====
